---- MODULE Spec2Model ----
(***************************************************************************)
(* A model of routr (package route): the enumeration resolver, the API      *)
(* clients of route/common.py and the batch pipeline of                     *)
(* route/operations.py, driven by main of route/__init__.py.                *)
(*                                                                         *)
(* Python strings whose characters the code inspects (base URLs,           *)
(* coordinates, URL paths, messages) are sequences of tokens; a token is a  *)
(* piece of text the code never looks into.  Other Python values are        *)
(* tagged records (PyNone, PyStr, Member).                                  *)
(***************************************************************************)
EXTENDS Integers, Sequences, FiniteSets, TLC

VARIABLES config, client, derived, last, trace,
          source, coordset, results, output, pc, ri, gi, di, logged

vars == <<config, client, derived, last, trace,
          source, coordset, results, output, pc, ri, gi, di, logged>>

pipeVars == <<source, coordset, results, output, pc, ri, gi, di, logged>>


-----------------------------------------------------------------------------
(* Bounds of the model *)

MaxUrlLen == 7
MaxCoordLen == 2
MaxCoords == 2
MaxCalls == 1
MaxRows == 3

-----------------------------------------------------------------------------
(* Python values and outcomes *)

PyNone == [t |-> "None"]
PyStr(s) == [t |-> "str", v |-> s]
Member(cls, name) == [t |-> "enum", cls |-> cls, name |-> name]

Ok(x) == [ok |-> TRUE, val |-> x]
Raise(exc, msg) == [ok |-> FALSE, exc |-> exc, msg |-> msg]

NoLast == [op |-> "none"]

(* Strings as token sequences *)

StartsWith(s, p) == Len(s) >= Len(p) /\ SubSeq(s, 1, Len(p)) = p
EndsWith(s, p) == Len(s) >= Len(p) /\ SubSeq(s, Len(s) - Len(p) + 1, Len(s)) = p
Contains(s, p) == \E i \in 1..(Len(s) - Len(p) + 1) : SubSeq(s, i, i + Len(p) - 1) = p

SchemeMark == <<":", "/", "/">>
Slash == <<"/">>

UrlChars == {"h", ":", "/"}
UrlStrings == UNION {[1..k -> UrlChars] : k \in 0..MaxUrlLen}

-----------------------------------------------------------------------------
(* The enumerations and EnumMixin.resolve *)

OSRMProfile == {<<"BIKE", "bike">>, <<"CAR", "car">>, <<"FOOT", "foot">>}
OSRMService == {<<"ROUTE", "route">>, <<"MATCH", "match">>, <<"NEAREST", "nearest">>,
                <<"TABLE", "table">>, <<"TRIP", "trip">>, <<"TILE", "tile">>}

EnumClasses == {"OSRMProfile", "OSRMService"}
EnumOf(cls) == IF cls = "OSRMProfile" THEN OSRMProfile ELSE OSRMService
Members(cls) == {Member(cls, c[1]) : c \in EnumOf(cls)}
ValueOf(m) == (CHOOSE c \in EnumOf(m.cls) : c[1] = m.name)[2]
ByValue(cls, v) == Member(cls, (CHOOSE c \in EnumOf(cls) : c[2] = v)[1])

(* resolve with isinstance(value, cls) weakened to "is a member of any enumeration" *)
resolveAnyMember(cls, value) ==
    IF value.t = "enum" THEN Ok(value)
    ELSE IF value.t = "str" /\ value.v \in {c[1] : c \in EnumOf(cls)}
         THEN Ok(Member(cls, value.v))
    ELSE IF value.t = "str" /\ value.v \in {c[2] : c \in EnumOf(cls)}
         THEN Ok(ByValue(cls, value.v))
    ELSE Raise("ValueError", <<"Invalid value provided for ", cls, ": ", value>>)

(* EnumMixin.resolve: identity, then name, then value, else ValueError *)
resolve(cls, value) ==
    IF value.t = "enum" /\ value.cls = cls THEN Ok(value)
    ELSE IF value.t = "str" /\ value.v \in {c[1] : c \in EnumOf(cls)}
         THEN Ok(Member(cls, value.v))
    ELSE IF value.t = "str" /\ value.v \in {c[2] : c \in EnumOf(cls)}
         THEN Ok(ByValue(cls, value.v))
    ELSE Raise("ValueError", <<"Invalid value provided for ", cls, ": ", value>>)

-----------------------------------------------------------------------------
(* APIClient.__init__ and OSRMClient.__init__ *)

Falsy(x) == x.t = "None" \/ (x.t = "str" /\ x.v = "")

APIClient_init(urlbase, apikey) ==
    IF ~Contains(urlbase, SchemeMark) \/ StartsWith(urlbase, SchemeMark)
    THEN Raise("ValueError", <<"urlbase must specify a scheme">>)
    ELSE LET stored == IF urlbase # <<>> /\ EndsWith(urlbase, Slash)
                       THEN SubSeq(urlbase, 1, Len(urlbase) - 1)
                       ELSE urlbase
         IN Ok([cls |-> "APIClient", urlbase |-> stored, apikey |-> apikey])

OSRMClient_init(urlbase, apikey, service, version, profile) ==
    LET base == APIClient_init(urlbase, apikey)
        svc == resolve("OSRMService", IF Falsy(service) THEN PyStr("route") ELSE service)
        prf == resolve("OSRMProfile", profile)
    IN IF ~base.ok THEN base
       ELSE IF ~svc.ok THEN svc
       ELSE IF ~prf.ok THEN prf
       ELSE Ok([cls |-> "OSRMClient", urlbase |-> base.val.urlbase,
                apikey |-> apikey, service |-> svc.val, profile |-> prf.val,
                version |-> IF Falsy(version) THEN PyStr("v1") ELSE version])

DefaultVersion == PyStr("v1")
DefaultProfile == Member("OSRMProfile", "CAR")

(* OSRMClient.for_: self.__class__(self.urlbase, service, profile=profile) *)
for_(self, service, profile) ==
    OSRMClient_init(self.urlbase, service, PyNone, DefaultVersion, profile)

-----------------------------------------------------------------------------
(* OSRMClient._build_url, APIClient._build_url and APIClient.__call__ *)

REQUIRED_PAYLOAD_ENTRIES == <<"coordinates">>

IsSpace(tok) == tok = " "

RECURSIVE lstrip(_)
lstrip(s) == IF s # <<>> /\ IsSpace(Head(s)) THEN lstrip(Tail(s)) ELSE s

RECURSIVE rstrip(_)
rstrip(s) == IF s # <<>> /\ IsSpace(s[Len(s)]) THEN rstrip(SubSeq(s, 1, Len(s) - 1)) ELSE s

strip(s) == rstrip(lstrip(s))

RECURSIVE join(_, _)
join(sep, parts) ==
    IF parts = <<>> THEN <<>>
    ELSE IF Len(parts) = 1 THEN parts[1]
    ELSE parts[1] \o sep \o join(sep, Tail(parts))

(* [c.strip() for c in coordinates if c] *)
RECURSIVE StrippedCoords(_)
StrippedCoords(coordinates) ==
    IF coordinates = <<>> THEN <<>>
    ELSE IF Head(coordinates) # <<>>
         THEN <<strip(Head(coordinates))>> \o StrippedCoords(Tail(coordinates))
         ELSE StrippedCoords(Tail(coordinates))

(* list(coordinates) of a str: its characters, each a string of its own *)
AsList(coordinates) ==
    IF coordinates.t = "list" THEN coordinates.v
    ELSE [i \in 1..Len(coordinates.v) |-> <<coordinates.v[i]>>]

Without(params, key) == [k \in DOMAIN params \ {key} |-> params[k]]

(* furl(self.urlbase, path=urlpath, args=params) *)
APIClient_build_url(self, urlpath, params) ==
    Ok([urlbase |-> self.urlbase, path |-> urlpath, args |-> params])

MissingEntries(params) ==
    {i \in 1..Len(REQUIRED_PAYLOAD_ENTRIES) : REQUIRED_PAYLOAD_ENTRIES[i] \notin DOMAIN params}

OSRMClient_build_url(self, urlpath, params) ==
    IF DOMAIN params = {}
    THEN Raise("ValidationError", <<"payload is required">>)
    ELSE IF MissingEntries(params) # {}
    THEN Raise("ValidationError", <<"'", "{entry}", "'", " missing from payload">>)
    ELSE LET prefix == <<"/", ValueOf(self.service), "/", self.version.v,
                         "/", ValueOf(self.profile)>>
             coords == join(<<";">>, StrippedCoords(AsList(params["coordinates"])))
         IN APIClient_build_url(self, prefix \o <<"/">> \o coords \o <<".json">>,
                                Without(params, "coordinates"))

build_url(self, urlpath, params) ==
    IF self.cls = "OSRMClient" THEN OSRMClient_build_url(self, urlpath, params)
    ELSE APIClient_build_url(self, urlpath, params)

(* APIClient.__call__ with as_get=True: the URL, then requests.get, whose      *)
(* outcome (a response, or an exception of the transport) is the server's.   *)
APIClient_call(self, urlpath, payload, reply) ==
    LET built == IF payload.t = "None"
                 THEN Raise("TypeError", <<"argument after ** must be a mapping">>)
                 ELSE build_url(self, urlpath, payload.v)
    IN IF ~built.ok THEN [out |-> built, sent |-> <<>>]
       ELSE [out |-> reply, sent |-> <<[ev |-> "GET", url |-> built.val]>>]

-----------------------------------------------------------------------------
(* The client-side operations as actions.  last is the latest call with its  *)
(* arguments and outcome; trace is what has gone out on the wire.            *)

NoClient == PyNone

PipeIdle ==
    /\ source = <<>> /\ coordset = <<>> /\ results = <<>> /\ output = <<>>
    /\ pc = "idle" /\ ri = 0 /\ gi = 0 /\ di = 0 /\ logged = <<>>

DemoUrl == <<"h", ":", "/", "/", "h">>
DemoConfig == [engine |-> "OSRM", urlbase |-> DemoUrl, apikey |-> PyNone]

ApiKeys == {PyNone, PyStr("k")}
Engines == {"OSRM", "other"}
Configs == [engine : Engines, urlbase : UrlStrings, apikey : ApiKeys]

(* get_client: the cached client, or one built from the configuration *)
get_client(cfg, cached) ==
    IF cached # NoClient THEN Ok(cached)
    ELSE IF cfg.engine = "OSRM"
         THEN OSRMClient_init(cfg.urlbase, cfg.apikey, PyNone, DefaultVersion, DefaultProfile)
         ELSE APIClient_init(cfg.urlbase, cfg.apikey)

GetClient ==
    /\ pc = "idle"
    /\ LET got == get_client(config, client)
       IN /\ last' = [op |-> "get_client", out |-> got]
          /\ client' = IF got.ok THEN got.val ELSE client
    /\ UNCHANGED <<config, derived, trace, pipeVars>>

InitBase ==
    /\ config \in Configs
    /\ client = NoClient /\ derived = NoClient /\ last = NoLast /\ trace = <<>>
    /\ PipeIdle

NextBase == GetClient

SpecBase == InitBase /\ [][NextBase]_vars

(* Inputs of the constructor, of resolve and of for_ *)

Variants(c) == {PyStr(c[1]), PyStr(c[2]), PyStr(c[3]), PyStr(c[4])}
Spelled ==
    {<<"BIKE", "bike", "Bike", " bike">>, <<"CAR", "car", "Car", " car">>,
     <<"FOOT", "foot", "Foot", " foot">>, <<"ROUTE", "route", "Route", " route">>,
     <<"MATCH", "match", "Match", " match">>, <<"NEAREST", "nearest", "Nearest", " nearest">>,
     <<"TABLE", "table", "Table", " table">>, <<"TRIP", "trip", "Trip", " trip">>,
     <<"TILE", "tile", "Tile", " tile">>}
Junk == {PyNone, PyStr(""), PyStr("walk"), PyStr("WALK"), PyStr("driving"), PyStr("Driving")}
ResolveInputs ==
    UNION {Members(cls) : cls \in EnumClasses} \cup UNION {Variants(c) : c \in Spelled} \cup Junk

ServiceArgs == {PyNone, Member("OSRMService", "TABLE"), PyStr("TRIP"), PyStr("match"),
                PyStr("walk")}
ProfileArgs == {Member("OSRMProfile", "BIKE"), PyStr("FOOT"), PyStr("car"), PyStr("Car")}
VersionArgs == {PyNone, PyStr("v2")}
UrlArgs == {DemoUrl, DemoUrl \o Slash}

(* cls.resolve(value) *)
Resolve(cls, value) ==
    /\ pc = "idle"
    /\ last' = [op |-> "resolve", cls |-> cls, value |-> value, out |-> resolve(cls, value)]
    /\ UNCHANGED <<config, client, derived, trace, pipeVars>>

(* c = OSRMClient(urlbase, apikey, service, version, profile) *)
NewClient(urlbase, apikey, service, version, profile) ==
    LET made == OSRMClient_init(urlbase, apikey, service, version, profile)
    IN /\ pc = "idle"
       /\ last' = [op |-> "OSRMClient", out |-> made]
       /\ client' = IF made.ok THEN made.val ELSE NoClient
       /\ derived' = NoClient
       /\ UNCHANGED <<config, trace, pipeVars>>

(* with c.for_(service, profile) as cl *)
WithFor(service, profile) ==
    /\ pc = "idle"
    /\ client # NoClient /\ client.cls = "OSRMClient"
    /\ LET made == for_(client, service, profile)
       IN /\ last' = [op |-> "for_", self |-> client, service |-> service,
                      profile |-> profile, out |-> made]
          /\ derived' = IF made.ok THEN made.val ELSE NoClient
    /\ UNCHANGED <<config, client, trace, pipeVars>>

InitClient ==
    /\ config = DemoConfig
    /\ client = NoClient /\ derived = NoClient /\ last = NoLast /\ trace = <<>>
    /\ PipeIdle

NextResolve == \E cls \in EnumClasses, value \in ResolveInputs : Resolve(cls, value)

SpecResolve == InitClient /\ [][NextResolve]_vars

NextClient ==
    \/ \E urlbase \in UrlArgs, apikey \in ApiKeys, service \in ServiceArgs,
          version \in VersionArgs, profile \in ProfileArgs :
          NewClient(urlbase, apikey, service, version, profile)
    \/ \E service \in Members("OSRMService") \cup {PyStr("walk")},
          profile \in Members("OSRMProfile") \cup {PyStr("Car")} :
          WithFor(service, profile)

SpecClient == InitClient /\ [][NextClient]_vars

-----------------------------------------------------------------------------
(* Replies of the remote service: what requests.get gives back or raises.    *)
(* A body is a JSON value (tagged), or text that is no JSON at all.          *)

JNull == [t |-> "null"]
JBool(b) == [t |-> "bool", v |-> b]
JNum(n) == [t |-> "num", v |-> n]
JStr(s) == [t |-> "str", v |-> s]
JArr(a) == [t |-> "arr", v |-> a]
JObj(f) == [t |-> "obj", v |-> f]
NotJson == [t |-> "text"]
OkText == <<"O", "k">>

Route(d) == JObj([distance |-> d])
Answer(code, routes) == JObj([code |-> code, routes |-> routes])

GoodBodies == {Answer(JStr(OkText), JArr(<<Route(JNum(1000)), Route(JNum(7))>>))}

OddBodies ==
    {JObj([code |-> JStr(<<"E", "r", "r", "o", "r">>)]),
     JObj([code |-> JStr(OkText)]),
     JObj([routes |-> JArr(<<Route(JNum(1000))>>)]),
     Answer(JNum(5), JArr(<<Route(JNum(1000))>>)),
     Answer(JStr(OkText), JArr(<<>>)),
     Answer(JStr(OkText), JNum(5)),
     Answer(JStr(OkText), JStr(<<"a", "b", "c">>)),
     Answer(JStr(OkText), JObj([a |-> JNum(1)])),
     Answer(JStr(OkText), JArr(<<JNull>>)),
     Answer(JStr(OkText), JArr(<<JObj([duration |-> JNum(5)])>>)),
     Answer(JStr(OkText), JArr(<<Route(JStr(<<"f", "a", "r">>))>>)),
     Answer(JStr(OkText), JArr(<<Route(JBool(TRUE))>>))}

Response(status, body) == Ok([status |-> status, body |-> body])

TransportFailures == {Raise("ConnectionError", <<"connection refused">>),
                      Raise("Timeout", <<"timed out">>)}

Replies ==
    {Response(200, b) : b \in GoodBodies \cup OddBodies}
      \cup {Response(400, JObj([code |-> JStr(<<"N", "o", "R", "o", "u", "t", "e">>)])), Response(502, NotJson),
            Response(200, JNum(5))}
      \cup TransportFailures

-----------------------------------------------------------------------------
(* Calling a client directly: cl(urlpath, payload) *)

CoordChars == {" ", "1"}
CoordStrings == UNION {[1..k -> CoordChars] : k \in 0..MaxCoordLen}
CoordLists == UNION {[1..k -> CoordStrings] : k \in 0..MaxCoords}
CoordValues == {[t |-> "list", v |-> l] : l \in CoordLists}
                 \cup {[t |-> "str", v |-> c] : c \in CoordStrings}

Dicts == {<<>>} \cup {[steps |-> PyStr("true")]}
           \cup {[coordinates |-> c] : c \in CoordValues}
           \cup {[coordinates |-> c, steps |-> PyStr("true")] : c \in CoordValues}
Payloads == {PyNone} \cup {[t |-> "dict", v |-> d] : d \in Dicts}
PathArgs == {PyNone, PyStr(<<"/", "elsewhere">>)}
DirectReplies == {Response(200, JObj([code |-> JStr(OkText)]))} \cup TransportFailures

Call(urlpath, payload, reply) ==
    /\ pc = "idle"
    /\ client # NoClient
    /\ Len(trace) < MaxCalls
    /\ LET r == APIClient_call(client, urlpath, payload, reply)
       IN /\ last' = [op |-> "call", urlpath |-> urlpath, payload |-> payload,
                      before |-> trace, out |-> r.out]
          /\ trace' = trace \o r.sent
    /\ UNCHANGED <<config, client, derived, pipeVars>>

NextUrl ==
    \/ \E urlbase \in UrlArgs, apikey \in ApiKeys, service \in ServiceArgs,
          version \in VersionArgs, profile \in ProfileArgs :
          /\ client = NoClient
          /\ NewClient(urlbase, apikey, service, version, profile)
    \/ \E urlpath \in PathArgs, payload \in Payloads, reply \in DirectReplies :
          Call(urlpath, payload, reply)

SpecUrl == InitClient /\ [][NextUrl]_vars

-----------------------------------------------------------------------------
(* compute_distances: the interpretation of one reply *)

Sentinel == PyStr("?")
Float(n, d) == [t |-> "float", num |-> n, den |-> d]
Scale == 100
Pause == 10

Truthy(j) ==
    CASE j.t = "null" -> FALSE
      [] j.t = "bool" -> j.v
      [] j.t = "num" -> j.v # 0
      [] j.t = "str" -> j.v # <<>>
      [] j.t = "arr" -> j.v # <<>>
      [] j.t = "obj" -> DOMAIN j.v # {}

(* AttrDict.__getattr__: the entry, or None *)
AttrGet(data, key) == IF key \in DOMAIN data THEN data[key] ELSE JNull

(* AttrDict(resp.json()) *)
AttrDict_of(body) ==
    CASE body.t = "text" -> Raise("JSONDecodeError", <<"Expecting value">>)
      [] body.t = "obj" -> Ok(body.v)
      [] body.t \in {"arr", "str"} ->
            IF body.v = <<>> THEN Ok(<<>>)
            ELSE Raise("ValueError", <<"dictionary update sequence element">>)
      [] OTHER -> Raise("TypeError", <<"object is not iterable">>)

(* x[0] *)
Subscript0(x) ==
    CASE x.t = "arr" -> IF x.v = <<>> THEN Raise("IndexError", <<"list index out of range">>)
                        ELSE Ok(x.v[1])
      [] x.t = "str" -> IF x.v = <<>> THEN Raise("IndexError", <<"string index out of range">>)
                        ELSE Ok(JStr(<<x.v[1]>>))
      [] x.t = "obj" -> Raise("KeyError", <<"0">>)
      [] OTHER -> Raise("TypeError", <<"object is not subscriptable">>)

(* route["distance"] / 100.0 *)
ScaledDistance(route) ==
    IF route.t # "obj" THEN Raise("TypeError", <<"indices must be integers">>)
    ELSE IF "distance" \notin DOMAIN route.v THEN Raise("KeyError", <<"distance">>)
    ELSE LET d == route.v["distance"]
         IN CASE d.t = "num" -> Ok(Float(d.v, Scale))
              [] d.t = "bool" -> Ok(Float(IF d.v THEN 1 ELSE 0, Scale))
              [] OTHER -> Raise("TypeError", <<"unsupported operand type(s) for /">>)

Step(out, distance, slept) == [out |-> out, distance |-> distance, slept |-> slept]

(* lines 26-41: the distance of one decoded reply, and whether the loop slept *)
Interpret(data) ==
    LET code == AttrGet(data, "code")
        routes == AttrGet(data, "routes")
    IN IF ~(Truthy(code) /\ code.t = "str" /\ code.v = OkText /\ Truthy(routes))
       THEN Step(Ok(PyNone), Sentinel, FALSE)
       ELSE LET first == Subscript0(routes)
            IN IF ~first.ok THEN Step(first, PyNone, FALSE)
               ELSE IF ~Truthy(first.val) THEN Step(Ok(PyNone), Sentinel, FALSE)
               ELSE LET d == ScaledDistance(first.val)
                    IN Step(Ok(PyNone), IF d.ok THEN d.val ELSE Sentinel, TRUE)

Format(a, b) == <<a, ",", b>>

RoutePayload(origin, dest) ==
    [t |-> "dict",
     v |-> [coordinates |-> [t |-> "list",
                             v |-> <<Format(origin[1], origin[2]),
                                     Format(dest.dest_long, dest.dest_lat)>>]]]

(* one iteration with every exception of the request turned into the sentinel *)
compute_step_catching(cl, origin, dest, reply) ==
    LET r == APIClient_call(cl, PyNone, RoutePayload(origin, dest), reply)
        data == AttrDict_of(r.out.val.body)
    IN IF ~r.out.ok THEN [step |-> Step(Ok(PyNone), Sentinel, FALSE), sent |-> r.sent]
       ELSE IF ~data.ok THEN [step |-> Step(data, PyNone, FALSE), sent |-> r.sent]
       ELSE [step |-> Interpret(data.val), sent |-> r.sent]

(* lines 20-41: one iteration of the loop over the destinations *)
compute_step(cl, origin, dest, reply) ==
    LET r == APIClient_call(cl, PyNone, RoutePayload(origin, dest), reply)
        data == AttrDict_of(r.out.val.body)
    IN IF ~r.out.ok THEN [step |-> Step(r.out, PyNone, FALSE), sent |-> r.sent]
       ELSE IF ~data.ok THEN [step |-> Step(data, PyNone, FALSE), sent |-> r.sent]
       ELSE [step |-> Interpret(data.val), sent |-> r.sent]

-----------------------------------------------------------------------------
(* compute: grouping, dispatch and output, under main *)

OriginOf(row) == <<row.origin_long, row.origin_lat>>
DestOf(row) == [dest_long |-> row.dest_long, dest_lat |-> row.dest_lat]

KeyIndex(cs, key) == {i \in 1..Len(cs) : cs[i].origin = key}

(* grouping under the longitude alone *)
GroupByLongitude(cs, row) ==
    LET at == {i \in 1..Len(cs) : cs[i].origin[1] = row.origin_long}
    IN IF at = {}
       THEN Append(cs, [origin |-> OriginOf(row), dests |-> <<DestOf(row)>>])
       ELSE LET i == CHOOSE j \in at : TRUE
            IN [cs EXCEPT ![i].dests = Append(@, DestOf(row))]

(* coordset.setdefault(origin_coord, []).append(dest_coord) *)
Group(cs, row) ==
    LET at == KeyIndex(cs, OriginOf(row))
    IN IF at = {}
       THEN Append(cs, [origin |-> OriginOf(row), dests |-> <<DestOf(row)>>])
       ELSE LET i == CHOOSE j \in at : TRUE
            IN [cs EXCEPT ![i].dests = Append(@, DestOf(row))]

fnames == <<"origin_lat", "origin_long", "dest_lat", "dest_long", "distance">>

(* writer.writeheader(): every field name under itself *)
Header == [f \in {fnames[i] : i \in 1..Len(fnames)} |-> PyStr(f)]

(* {"origin_lat": origin[0], "origin_long": origin[1], **dest} *)
OutputRow(origin, dest) ==
    [origin_lat |-> PyStr(origin[1]), origin_long |-> PyStr(origin[2]),
     dest_lat |-> PyStr(dest.dest_lat), dest_long |-> PyStr(dest.dest_long),
     distance |-> dest.distance]

Origins == {<<"10", "20">>, <<"10", "40">>}
Dests == {<<"11", "21">>, <<"12", "22">>}
Rows == {[origin_long |-> o[1], origin_lat |-> o[2], dest_long |-> d[1], dest_lat |-> d[2]] :
            o \in Origins, d \in Dests}
Sources == UNION {[1..n -> Rows] : n \in 0..MaxRows}

InitPipe ==
    /\ config = DemoConfig
    /\ client = NoClient /\ derived = NoClient /\ last = NoLast /\ trace = <<>>
    /\ source \in Sources
    /\ coordset = <<>> /\ results = <<>> /\ output = <<>>
    /\ pc = "read" /\ ri = 1 /\ gi = 0 /\ di = 0 /\ logged = <<>>

(* lines 50-55: one row of the reader *)
ReadRow ==
    /\ pc = "read" /\ ri <= Len(source)
    /\ coordset' = Group(coordset, source[ri])
    /\ ri' = ri + 1
    /\ UNCHANGED <<config, client, derived, last, trace, source, results, output,
                   pc, gi, di, logged>>

(* line 59: the loop over the groups starts, or there is none *)
EndRead ==
    /\ pc = "read" /\ ri > Len(source)
    /\ pc' = IF coordset = <<>> THEN "write" ELSE "group"
    /\ gi' = 1 /\ di' = 1
    /\ UNCHANGED <<config, client, derived, last, trace, source, coordset, results,
                   output, ri, logged>>

(* lines 15-18: the client of the thread, re-scoped to ROUTE and CAR *)
EnterGroup ==
    /\ pc = "group"
    /\ LET got == get_client(config, client)
           made == IF ~got.ok THEN got
                   ELSE IF got.val.cls # "OSRMClient"
                   THEN Raise("AttributeError", <<"for_">>)
                   ELSE for_(got.val, Member("OSRMService", "ROUTE"),
                             Member("OSRMProfile", "CAR"))
       IN /\ client' = IF got.ok THEN got.val ELSE client
          /\ derived' = IF made.ok THEN made.val ELSE NoClient
          /\ last' = [op |-> "for_", self |-> client', service |-> Member("OSRMService", "ROUTE"),
                      profile |-> Member("OSRMProfile", "CAR"), out |-> made]
          /\ pc' = IF made.ok THEN "loop" ELSE "raised"
    /\ di' = 1
    /\ UNCHANGED <<config, trace, source, coordset, results, output, ri, gi, logged>>

(* lines 19-41: one destination *)
Dispatch(reply) ==
    /\ pc = "loop" /\ di <= Len(coordset[gi].dests)
    /\ LET dest == coordset[gi].dests[di]
           r == compute_step(derived, coordset[gi].origin, dest, reply)
       IN /\ last' = [op |-> "dispatch", reply |-> reply, gi |-> gi, di |-> di,
                      before |-> trace, out |-> r.step.out]
          /\ trace' = trace \o r.sent
                        \o (IF r.step.slept THEN <<[ev |-> "sleep", secs |-> Pause]>> ELSE <<>>)
          /\ coordset' = IF r.step.distance = PyNone THEN coordset
                         ELSE [coordset EXCEPT ![gi].dests[di] =
                                  [dest_long |-> dest.dest_long, dest_lat |-> dest.dest_lat,
                                   distance |-> r.step.distance]]
          /\ pc' = IF r.step.out.ok THEN "loop" ELSE "raised"
          /\ di' = IF r.step.out.ok THEN di + 1 ELSE di
    /\ UNCHANGED <<config, client, derived, source, results, output, ri, gi, logged>>

(* lines 43 and 60-61: compute_distances returns, its locals are gone, and *)
(* the group's result is recorded                                         *)
Return ==
    /\ pc = "loop" /\ di > Len(coordset[gi].dests)
    /\ results' = Append(results, [origin |-> coordset[gi].origin,
                                   destinations |-> coordset[gi].dests])
    /\ derived' = NoClient /\ last' = NoLast
    /\ IF gi < Len(coordset)
       THEN pc' = "group" /\ gi' = gi + 1 /\ di' = 1
       ELSE pc' = "write" /\ gi' = 1 /\ di' = 1
    /\ UNCHANGED <<config, client, trace, source, coordset, output, ri, logged>>

RECURSIVE RowsOf(_, _)
RowsOf(origin, destinations) ==
    IF destinations = <<>> THEN <<>>
    ELSE <<OutputRow(origin, Head(destinations))>> \o RowsOf(origin, Tail(destinations))

RECURSIVE AllRows(_)
AllRows(res) ==
    IF res = <<>> THEN <<>>
    ELSE RowsOf(Head(res).origin, Head(res).destinations) \o AllRows(Tail(res))

(* lines 63-71: the header, then a row per destination of every result; *)
(* compute returns to main                                              *)
WriteOutput ==
    /\ pc = "write"
    /\ output' = <<Header>> \o AllRows(results)
    /\ pc' = "done"
    /\ UNCHANGED <<config, client, derived, last, trace, source, coordset, results,
                   ri, gi, di, logged>>

(* main, lines 46-47: except Exception as ex: log.exception(ex) *)
LogException ==
    /\ pc = "raised"
    /\ logged' = Append(logged, last.out)
    /\ pc' = "done"
    /\ UNCHANGED <<config, client, derived, last, trace, source, coordset, results,
                   output, ri, gi, di>>

NextPipe ==
    \/ ReadRow
    \/ EndRead
    \/ EnterGroup
    \/ \E reply \in Replies : Dispatch(reply)
    \/ Return
    \/ WriteOutput
    \/ LogException

SpecPipe == InitPipe /\ [][NextPipe]_vars

-----------------------------------------------------------------------------
(* Properties of the clients *)

HasScheme(u) == Contains(u, SchemeMark) /\ ~StartsWith(u, SchemeMark)

(* C5: constructing a client from a base URL either fails, and then the URL  *)
(* lacks a scheme, or stores a base URL that has a scheme and does not end   *)
(* with a slash; an input with a scheme and no trailing slash is stored as   *)
(* it is.                                                                    *)
C5_BaseUrlNormalised ==
    last.op = "get_client" =>
        IF last.out.ok
        THEN /\ HasScheme(last.out.val.urlbase)
             /\ ~EndsWith(last.out.val.urlbase, Slash)
             /\ (HasScheme(config.urlbase) /\ ~EndsWith(config.urlbase, Slash)
                    => last.out.val.urlbase = config.urlbase)
        ELSE ~HasScheme(config.urlbase)

Canonical(cls, value) ==
    {m \in Members(cls) : value = m \/ value = PyStr(m.name) \/ value = PyStr(ValueOf(m))}

(* C8 as stated: resolve returns the canonical member for a member, a        *)
(* member's name or a member's value, and fails with InvalidEnumValue for    *)
(* every other input.                                                        *)
C8_FailsWithInvalidEnumValue ==
    last.op = "resolve" =>
        IF Canonical(last.cls, last.value) # {}
        THEN last.out.ok /\ last.out.val \in Canonical(last.cls, last.value)
        ELSE ~last.out.ok /\ last.out.exc = "InvalidEnumValue"

(* C8 amended: resolve returns the canonical member for a member, a member's *)
(* name or a member's value (case-sensitively; a member resolves to itself), *)
(* and for every other input it raises ValueError, whose message carries the *)
(* enumeration's name and the input, instead of returning a default.         *)
C8_ResolveTotal ==
    last.op = "resolve" =>
        IF Canonical(last.cls, last.value) # {}
        THEN /\ last.out.ok
             /\ last.out.val \in Canonical(last.cls, last.value)
             /\ (last.value \in Members(last.cls) => last.out.val = last.value)
        ELSE /\ ~last.out.ok
             /\ last.out.exc = "ValueError"
             /\ last.out.msg[2] = last.cls /\ last.out.msg[4] = last.value

C8_Witness ==
    /\ last.op = "resolve" /\ last.cls = "OSRMProfile"
    /\ last.value = Member("OSRMService", "ROUTE")
    /\ ~last.out.ok

(* C4: the client yielded by c.for_(operation, profile) has c's base URL and *)
(* c's API key, the requested operation and the requested profile, and c is  *)
(* left as it was.                                                           *)
C4_DerivedSharesBaseAndKey ==
    (last.op = "for_" /\ last.service \in Members("OSRMService")
        /\ last.profile \in Members("OSRMProfile")) =>
        /\ last.out.ok
        /\ derived.urlbase = last.self.urlbase
        /\ derived.apikey = last.self.apikey
        /\ derived.service = last.service
        /\ derived.profile = last.profile
        /\ client = last.self

RECURSIVE NonEmptyStripped(_)
NonEmptyStripped(coordinates) ==
    IF coordinates = <<>> THEN <<>>
    ELSE IF strip(Head(coordinates)) # <<>>
         THEN <<strip(Head(coordinates))>> \o NonEmptyStripped(Tail(coordinates))
         ELSE NonEmptyStripped(Tail(coordinates))

NoEmptySegment(joined) ==
    joined = <<>> \/ (joined[1] # ";" /\ joined[Len(joined)] # ";"
                        /\ ~Contains(joined, <<";", ";">>))

(* C6: whatever path the caller supplies, the path of the built URL is       *)
(* /{operation}/{version}/{profile}/{joined}.json, joined being the          *)
(* semicolon-join of the trimmed, non-empty coordinate strings in input      *)
(* order, with no empty segment; the other payload entries are the query.    *)
C6_PathIsDerived ==
    (last.op = "call" /\ trace # last.before /\ last.payload.v["coordinates"].t = "list") =>
        LET url == trace[Len(trace)].url
            joined == join(<<";">>, NonEmptyStripped(last.payload.v["coordinates"].v))
        IN /\ url.path = <<"/", ValueOf(client.service), "/", client.version.v, "/",
                           ValueOf(client.profile), "/">> \o joined \o <<".json">>
           /\ NoEmptySegment(SubSeq(url.path, 8, Len(url.path) - 1))
           /\ url.args = Without(last.payload.v, "coordinates")

(* C7: a call with an empty payload fails with ValidationError, a call with  *)
(* a payload that lacks coordinates fails with a ValidationError whose       *)
(* message names coordinates, and neither issues an HTTP request.            *)
C7_MissingKeyIsNamed ==
    (last.op = "call" /\ last.payload.t = "dict"
        /\ "coordinates" \notin DOMAIN last.payload.v) =>
        /\ ~last.out.ok /\ last.out.exc = "ValidationError"
        /\ (DOMAIN last.payload.v # {} => \E i \in DOMAIN last.out.msg :
                                              last.out.msg[i] = "coordinates")
        /\ trace = last.before

-----------------------------------------------------------------------------
(* Properties of the batch pipeline *)

Completed == pc = "done" /\ logged = <<>>

RECURSIVE FirstSeen(_, _)
FirstSeen(src, seen) ==
    IF src = <<>> THEN <<>>
    ELSE IF OriginOf(Head(src)) \in seen THEN FirstSeen(Tail(src), seen)
    ELSE <<OriginOf(Head(src))>> \o FirstSeen(Tail(src), seen \cup {OriginOf(Head(src))})

RowsUnder(src, origin) == SelectSeq(src, LAMBDA r : OriginOf(r) = origin)

RECURSIVE Blocks(_, _)
Blocks(src, origins) ==
    IF origins = <<>> THEN <<>>
    ELSE RowsUnder(src, Head(origins)) \o Blocks(src, Tail(origins))

(* the input rows, block by block in first-seen origin order *)
Regrouped(src) == Blocks(src, FirstSeen(src, {}))

RECURSIVE Annotated(_)
Annotated(cs) == IF cs = <<>> THEN <<>> ELSE Head(cs).dests \o Annotated(Tail(cs))

DataRows == Tail(output)

(* the origin key a row was written under: origin[0] and origin[1] of line 70 *)
KeyOf(row) == <<row.origin_lat.v, row.origin_long.v>>

C3_FieldsCarriedOver ==
    Completed =>
        \A k \in 1..Len(DataRows) :
            /\ DataRows[k].origin_long.v = Regrouped(source)[k].origin_long
            /\ DataRows[k].origin_lat.v = Regrouped(source)[k].origin_lat
            /\ DataRows[k].dest_long.v = Regrouped(source)[k].dest_long
            /\ DataRows[k].dest_lat.v = Regrouped(source)[k].dest_lat
            /\ DataRows[k].distance = Annotated(coordset)[k].distance

WellShaped(body) ==
    /\ "code" \in DOMAIN body.v /\ body.v["code"] = JStr(OkText)
    /\ "routes" \in DOMAIN body.v /\ body.v["routes"].t = "arr"
    /\ body.v["routes"].v # <<>>
    /\ body.v["routes"].v[1].t = "obj"
    /\ "distance" \in DOMAIN body.v["routes"].v[1].v
    /\ body.v["routes"].v[1].v["distance"].t = "num"

Deviates(body) == body.t = "obj" /\ ~WellShaped(body)

(* C1: a reply whose body is JSON but not of the expected shape sets the    *)
(* destination's distance to "?", raises nothing, and the loop goes on to   *)
(* the next destination.                                                    *)
C1_AnomaliesDegrade ==
    (last.op = "dispatch" /\ last.reply.ok /\ Deviates(last.reply.val.body)) =>
        /\ last.out.ok
        /\ coordset[last.gi].dests[last.di].distance = Sentinel
        /\ pc = "loop" /\ di = last.di + 1

(* C9: after every request the loop sleeps, whatever the outcome, so no two *)
(* requests of a run follow each other without a pause between them.        *)
C9_PauseAfterEveryRequest ==
    /\ (last.op = "dispatch" /\ last.out.ok) => trace[Len(trace)].ev = "sleep"
    /\ \A i \in 1..(Len(trace) - 1) : ~(trace[i].ev = "GET" /\ trace[i + 1].ev = "GET")

Non2xx(reply) == reply.ok /\ reply.val.status \notin 200..299
DestAt(g, d) == coordset[g].dests[d]

(* what a failed request leaves behind: the exception went up to main, the  *)
(* destination has no distance, and the failed request is the last one      *)
Aborted(exception) ==
    /\ ~last.out.ok /\ last.out = exception
    /\ pc \in {"raised", "done"}
    /\ "distance" \notin DOMAIN DestAt(last.gi, last.di)
    /\ (pc = "done" => logged = <<exception>> /\ output = <<>>)
    /\ Len(trace) = Len(last.before) + 1 /\ trace[Len(trace)].ev = "GET"

(* C10 as stated: a timeout, a refused connection or a non-2xx status of a  *)
(* request is not caught and not made a sentinel; it reaches main, which    *)
(* logs it, and no further request is issued.                               *)
C10_Non2xxAborts ==
    (last.op = "dispatch" /\ (~last.reply.ok \/ Non2xx(last.reply))) =>
        /\ ~last.out.ok
        /\ pc \in {"raised", "done"}
        /\ "distance" \notin DOMAIN DestAt(last.gi, last.di)
        /\ (pc = "done" => Len(logged) = 1 /\ output = <<>>)
        /\ Len(trace) = Len(last.before) + 1 /\ trace[Len(trace)].ev = "GET"

(* C10 amended: a request that raises (timeout, connection refused) is not  *)
(* caught and not made a sentinel: the exception reaches main, which logs   *)
(* it, no further request is issued and the request is not retried.  A      *)
(* non-2xx status raises nothing: the body is read as any other, and a JSON *)
(* object without code "Ok" gets the sentinel and the batch goes on.        *)
C10_RaisedRequestAborts ==
    /\ (last.op = "dispatch" /\ ~last.reply.ok) => Aborted(last.reply)
    /\ (last.op = "dispatch" /\ Non2xx(last.reply) /\ last.reply.val.body.t = "obj"
          /\ AttrGet(last.reply.val.body.v, "code") # JStr(OkText)) =>
            /\ last.out.ok /\ pc = "loop" /\ di = last.di + 1
            /\ DestAt(last.gi, last.di).distance = Sentinel

C10_Witness ==
    /\ last.op = "dispatch" /\ ~last.reply.ok
    /\ pc = "done" /\ logged # <<>>
    /\ Len(coordset) = 2 /\ last.gi = 1 /\ last.di = 1 /\ Len(coordset[1].dests) = 2

====
